---- MODULE Spec2Model ----
(***************************************************************************)
(* Session lifecycle of the super-admin dashboard: AdminSessionManager     *)
(* (src/lib/session-manager.ts), AuthService (src/lib/auth.ts) and the     *)
(* browser collaborators they drive (timers, localStorage, the backend),   *)
(* with the inactivity tracker and the rate limiter of src/lib/security.ts *)
(* that the App and the login form use.                                    *)
(* Time is in milliseconds, as Date.now() gives it.                        *)
(***************************************************************************)
EXTENDS Integers, Sequences, FiniteSets, TLC

VARIABLES
    now,        \* Date.now()
    config,     \* AdminSessionManager.config
    state,      \* AdminSessionManager.state
    listeners,  \* AdminSessionManager.listeners, in the order a Set iterates
    handlers,   \* handleActivity functions attached to the document
    timers,     \* pending setTimeout timers of the manager
    intervals,  \* setInterval timers of the manager (never cleared)
    store,      \* localStorage: adminToken, adminRefreshToken, adminUser
    tasks,      \* backend requests in flight, each awaited by an AuthService call
    refreshers, \* setInterval timers of AuthService.startTokenRefresh
    app,        \* App: where initializeAuth stands, and its isAuthenticated state
    tracking,   \* security.ts SessionManager: its static fields, the
                \* updateActivity handlers attached and its setInterval timers
    attempts,   \* RateLimiter.attempts: the timestamps kept for each key
    allowed,    \* history: for each key the times of the isAllowed calls
                \* that returned true since the key was last reset
    out         \* what the last step did that is visible outside

vars == <<now, config, state, listeners, handlers, timers, intervals, store,
          tasks, refreshers, app, tracking, attempts, allowed, out>>

----------------------------------------------------------------------------
(* Bounds of the model *)

\* the clock stops here (ms)
MaxNow == 600000
\* sub-minute clock steps are taken only this far (ms) into a coarse step
FineWindow == 1000
\* number of start() activations explored (each leaves an interval behind)
MaxStarts == 2
\* backend requests in flight at once
MaxTasks == 2
\* lifetime (s) of the access tokens the backend issues
AccessTtlSec == 300
\* number of startTokenRefresh() intervals explored
MaxRefreshers == 1
\* the clock of the inactivity tracker's specification stops here (ms)
MaxNowTracking == 3600000
\* the clock of the rate limiter's specification stops here (ms)
MaxNowLimiter == 1200000
\* number of isAllowed calls answered true that are explored between resets
MaxCalls == 7
\* the clock of the application-level specification stops here (ms)
MaxNowApp == 900000

(* Program constants *)

ThrottleMs == 1000
DefaultTimeoutMinutes == 480
DefaultWarningMinutes == 30
DefaultCheckIntervalMs == 300000
ApiTimeoutMs == 15000
TokenRefreshMs == 15 * 60 * 1000
ValidateEveryMs == 10 * 60 * 1000
\* security.ts SessionManager
SessionTimeoutMs == 30 * 60 * 1000
ActivityCheckIntervalMs == 60 * 1000
\* the limit and the window Login.handleSubmit passes to rateLimiter.isAllowed
LoginMaxAttempts == 5
LoginWindowMs == 15 * 60 * 1000
LoginKey == "login_local"
\* the keys given to the rate limiter: the login form's, and another caller's
Keys == {LoginKey, "other"}

\* clock steps: two sub-second ones around the throttle, one check interval
FineSteps == {500, 1000}
CoarseStep == DefaultCheckIntervalMs

\* values updateConfig is called with; NoChange marks a field left out
NoChange == 0 - 1
ConfigUpdates ==
    {[timeoutMinutes |-> 10, warningMinutes |-> NoChange],
     [timeoutMinutes |-> 10, warningMinutes |-> 5]}

\* callbacks that subscribe: the session indicator's, and one that throws
Listeners == {"indicator"}
FaultyListeners == {"faulty"}
Throws(l) == l \in FaultyListeners

Range(s) == {s[i] : i \in DOMAIN s}

Max(a, b) == IF a >= b THEN a ELSE b

----------------------------------------------------------------------------
\* op: the operation the step ran; by: the interval or request it ran for;
\* req, status: the request that was answered and the answer's HTTP status;
\* user: the user record of that answer, empty when it has none;
\* effects: prompts, redirects and requests; notified: listeners invoked;
\* seen: what getSessionInfo() returned to the listeners invoked;
\* uncaught: an exception left the operation
\* result: what verifyToken returned: "ok", or the error of the failure (the
\* message of a caught error is written "Token verification failed")
NoOut == [op |-> "init", by |-> 0, req |-> "none", status |-> 0,
          user |-> {}, result |-> "none", effects |-> {}, notified |-> {}, seen |-> {},
          uncaught |-> FALSE]

(* localStorage.  An item is a set with at most one element: {} is a       *)
(* missing key; adminToken holds the token's exp claim (seconds),          *)
(* adminUser the stored user's role.                                       *)

EmptyStore == [adminToken |-> {}, adminRefreshToken |-> {}, adminUser |-> {}]

\* what an earlier page load may have left: nothing, or the credentials of a
\* superadmin with a token issued just now or one that has expired
InitialStores ==
    {EmptyStore,
     [adminToken |-> {AccessTtlSec}, adminRefreshToken |-> {1},
      adminUser |-> {"superadmin"}],
     [adminToken |-> {0 - 1}, adminRefreshToken |-> {1},
      adminUser |-> {"superadmin"}]}

\* the record every operation works on
World ==
    [now |-> now, config |-> config, state |-> state, listeners |-> listeners,
     handlers |-> handlers, timers |-> timers, intervals |-> intervals,
     store |-> store, tasks |-> tasks, refreshers |-> refreshers, app |-> app,
     tracking |-> tracking, attempts |-> attempts, allowed |-> allowed,
     out |-> NoOut]

\* an effect visible outside the manager: "confirm", "alert", "redirect", ...
Emit(w, e) == [w EXCEPT !.out.effects = @ \cup {e}]

\* the operation a step runs, and the interval whose callback runs it (or 0)
Op(w, name, id) == [w EXCEPT !.out.op = name, !.out.by = id]

\* the request a step ends, and the status of its answer
Answered(w, t, response) ==
    [w EXCEPT !.tasks = @ \ {t}, !.out.by = t.id, !.out.req = t.req,
              !.out.status = response.status,
              !.out.user = IF response.status = 200 THEN response.body.user
                           ELSE {}]

----------------------------------------------------------------------------
(* window.setTimeout / clearTimeout.  A handle is a positive number; 0 is  *)
(* null.  A handle still held by the manager is never handed out again.    *)

UsedTimerIds(w) ==
    {t.id : t \in w.timers} \cup {w.state.timeoutId, w.state.warningTimeoutId}

\* the smallest handle not in use
FreshTimerId(w) ==
    CHOOSE i \in 1 .. Cardinality(UsedTimerIds(w)) + 1 :
        /\ i \notin UsedTimerIds(w)
        /\ \A j \in 1 .. i - 1 : j \in UsedTimerIds(w)

ClearTimeout(w, id) == [w EXCEPT !.timers = {t \in @ : t.id # id}]

SetTimeout(w, id, kind, delay) ==
    [w EXCEPT !.timers = @ \cup {[id |-> id, kind |-> kind,
                                  due |-> w.now + Max(0, delay)]}]

----------------------------------------------------------------------------
(* AdminSessionManager *)

clearTimeouts(w) ==
    LET w1 == IF w.state.timeoutId # 0
              THEN [ClearTimeout(w, w.state.timeoutId) EXCEPT !.state.timeoutId = 0]
              ELSE w
    IN  IF w1.state.warningTimeoutId # 0
        THEN [ClearTimeout(w1, w1.state.warningTimeoutId)
                 EXCEPT !.state.warningTimeoutId = 0]
        ELSE w1

\* scheduleTimeouts without its clearTimeouts()
scheduleTimeouts_NoClear(w) ==
    LET timeoutMs == w.config.timeoutMinutes * 60 * 1000
        warningMs == (w.config.timeoutMinutes - w.config.warningMinutes) * 60 * 1000
        wid == FreshTimerId(w)
        w1 == [SetTimeout(w, wid, "warning", warningMs)
                  EXCEPT !.state.warningTimeoutId = wid]
        tid == FreshTimerId(w1)
    IN  [SetTimeout(w1, tid, "timeout", timeoutMs) EXCEPT !.state.timeoutId = tid]

scheduleTimeouts(w) ==
    LET w0 == clearTimeouts(w)
        timeoutMs == w0.config.timeoutMinutes * 60 * 1000
        warningMs == (w0.config.timeoutMinutes - w0.config.warningMinutes) * 60 * 1000
        wid == FreshTimerId(w0)
        w1 == [SetTimeout(w0, wid, "warning", warningMs)
                  EXCEPT !.state.warningTimeoutId = wid]
        tid == FreshTimerId(w1)
    IN  [SetTimeout(w1, tid, "timeout", timeoutMs) EXCEPT !.state.timeoutId = tid]

getSessionInfo(w) ==
    LET timeSinceActivity == w.now - w.state.lastActivity
        timeoutMs == w.config.timeoutMinutes * 60 * 1000
        remainingMs == Max(0, timeoutMs - timeSinceActivity)
    IN  [isActive |-> w.state.isActive,
         lastActivity |-> w.state.lastActivity,
         timeRemaining |-> remainingMs,
         timeRemainingMinutes |-> remainingMs \div 60000,
         warningShown |-> w.state.warningShown]

\* a listener runs: it reads getSessionInfo(), and it may throw
callback(w, l) ==
    [w EXCEPT !.out.notified = @ \cup {l}, !.out.seen = @ \cup {getSessionInfo(w)}]

\* listeners.forEach from the i-th listener on; try: the call is inside try/catch
RECURSIVE forEachListener(_, _, _)
forEachListener(w, i, try) ==
    IF i > Len(w.listeners) THEN w
    ELSE LET l == w.listeners[i]
             w1 == callback(w, l)
         IN  IF Throws(l) /\ ~try THEN [w1 EXCEPT !.out.uncaught = TRUE]
             ELSE forEachListener(w1, i + 1, try)

\* notifyListeners without its try/catch
notifyListeners_NoCatch(w) == forEachListener(w, 1, FALSE)

notifyListeners(w) == forEachListener(w, 1, TRUE)

addListener(w, l) ==
    IF l \in Range(w.listeners) THEN w
    ELSE [w EXCEPT !.listeners = Append(@, l)]

removeListener(w, l) ==
    [w EXCEPT !.listeners = SelectSeq(@, LAMBDA x : x # l)]

\* ticks: how many times the interval has run its callback
startPeriodicCheck(w) ==
    [w EXCEPT !.intervals = @ \cup
        {[id |-> Cardinality(w.intervals) + 1,
          period |-> w.config.checkIntervalMs,
          ticks |-> 0,
          due |-> w.now + w.config.checkIntervalMs]}]

\* start without its isActive guard
start_NoGuard(w) ==
    LET w1 == [w EXCEPT !.state.isActive = TRUE,
                        !.state.lastActivity = w.now,
                        !.handlers = @ + 1]
    IN  startPeriodicCheck(scheduleTimeouts(w1))

start(w) ==
    IF w.state.isActive THEN w
    ELSE LET w1 == [w EXCEPT !.state.isActive = TRUE,
                             !.state.lastActivity = w.now,
                             !.handlers = @ + 1]
         IN  startPeriodicCheck(scheduleTimeouts(w1))

\* stop that also removes the stored credentials
stop_ClearsAuth(w) ==
    IF ~w.state.isActive THEN w
    ELSE clearTimeouts([w EXCEPT !.state.isActive = FALSE,
                                 !.store.adminToken = {},
                                 !.store.adminUser = {}])

\* removeEventListener is given a new bound function each time, which was
\* never attached: no handler is removed
stop(w) ==
    IF ~w.state.isActive THEN w
    ELSE clearTimeouts([w EXCEPT !.state.isActive = FALSE])

\* handleActivity without its throttle
handleActivity_NoThrottle(w) ==
    notifyListeners(scheduleTimeouts(
        [w EXCEPT !.state.lastActivity = w.now, !.state.warningShown = FALSE]))

\* handleActivity notifying the listeners before it updates the session
handleActivity_NotifyFirst(w) ==
    LET timeSinceLastActivity == w.now - w.state.lastActivity
    IN  IF timeSinceLastActivity < ThrottleMs THEN w
        ELSE LET w1 == notifyListeners(w)
             IN  scheduleTimeouts([w1 EXCEPT !.state.lastActivity = w.now,
                                            !.state.warningShown = FALSE])

handleActivity(w) ==
    LET timeSinceLastActivity == w.now - w.state.lastActivity
    IN  IF timeSinceLastActivity < ThrottleMs THEN w
        ELSE notifyListeners(scheduleTimeouts(
                 [w EXCEPT !.state.lastActivity = w.now,
                           !.state.warningShown = FALSE]))

\* extendSession that resets lastActivity and leaves the old timers armed
extendSession_KeepsTimers(w) ==
    [w EXCEPT !.state.lastActivity = w.now, !.state.warningShown = FALSE]

extendSession(w) ==
    scheduleTimeouts([w EXCEPT !.state.lastActivity = w.now,
                               !.state.warningShown = FALSE])

\* clearAdminAuthData removing the cached user only
clearAdminAuthData_KeepsToken(w) == [w EXCEPT !.store.adminUser = {}]

clearAdminAuthData(w) ==
    [w EXCEPT !.store.adminToken = {}, !.store.adminUser = {}]

handleSessionTimeout(w) ==
    Emit(Emit(clearAdminAuthData(stop(w)), "alert"), "redirect")

\* continueSession is the answer confirm() returns
showTimeoutWarning(w, continueSession) ==
    IF w.state.warningShown THEN w
    ELSE LET w1 == Emit([w EXCEPT !.state.warningShown = TRUE], "confirm")
         IN  IF continueSession THEN extendSession(w1)
             ELSE handleSessionTimeout(w1)

\* updateConfig that merges the fields and leaves the timers as they are
updateConfig_NoRearm(w, newConfig) ==
    [w EXCEPT !.config =
        [k \in DOMAIN w.config |->
            IF k \in DOMAIN newConfig /\ newConfig[k] # NoChange
            THEN newConfig[k] ELSE w.config[k]]]

updateConfig(w, newConfig) ==
    LET merged == [k \in DOMAIN w.config |->
                      IF k \in DOMAIN newConfig /\ newConfig[k] # NoChange
                      THEN newConfig[k] ELSE w.config[k]]
        w1 == [w EXCEPT !.config = merged]
    IN  IF w1.state.isActive THEN scheduleTimeouts(w1) ELSE w1

----------------------------------------------------------------------------
(* SessionManager of security.ts: a second inactivity tracker, with static *)
(* fields, which App.initializeAuth and Login.handleSubmit start.          *)

\* the five listeners share one updateActivity; the interval is never cleared
startActivityTracking(w) ==
    [w EXCEPT !.tracking.handlers = @ + 1,
              !.tracking.intervals = @ \cup
                  {[id |-> Cardinality(w.tracking.intervals) + 1,
                    due |-> w.now + ActivityCheckIntervalMs]}]

updateActivity(w) ==
    [w EXCEPT !.tracking.lastActivity = w.now,
              !.tracking.timeoutWarningShown = FALSE]

handleSessionExpired(w) ==
    Emit(Emit([w EXCEPT !.store.adminToken = {}, !.store.adminUser = {}],
              "alert"),
         "redirect")

\* SessionManager.showTimeoutWarning; continueSession is what confirm() returns
SessionManager_showTimeoutWarning(w, continueSession) ==
    LET w1 == Emit(w, "confirm")
    IN  IF continueSession
        THEN [w1 EXCEPT !.tracking.lastActivity = w.now,
                        !.tracking.timeoutWarningShown = FALSE]
        ELSE w1

\* the flag is set after showTimeoutWarning has returned, also when the user
\* has chosen to continue
checkSessionTimeout(w, continueSession) ==
    LET timeSinceActivity == w.now - w.tracking.lastActivity
        warningTime == SessionTimeoutMs - 5 * 60 * 1000
    IN  IF timeSinceActivity >= SessionTimeoutMs THEN handleSessionExpired(w)
        ELSE IF timeSinceActivity >= warningTime
                   /\ ~w.tracking.timeoutWarningShown
             THEN [SessionManager_showTimeoutWarning(w, continueSession)
                      EXCEPT !.tracking.timeoutWarningShown = TRUE]
             ELSE w

----------------------------------------------------------------------------
(* RateLimiter of security.ts.  isAllowed gives <<world, result>>.          *)

\* isAllowed letting one call more through
isAllowed_OneMore(w, key, maxAttempts, windowMs) ==
    LET windowStart == w.now - windowMs
        keyAttempts == SelectSeq(w.attempts[key], LAMBDA time : time > windowStart)
    IN  IF Len(keyAttempts) > maxAttempts THEN <<w, FALSE>>
        ELSE <<[w EXCEPT !.attempts[key] = Append(keyAttempts, w.now)], TRUE>>

isAllowed(w, key, maxAttempts, windowMs) ==
    LET windowStart == w.now - windowMs
        keyAttempts == SelectSeq(w.attempts[key], LAMBDA time : time > windowStart)
    IN  IF Len(keyAttempts) >= maxAttempts THEN <<w, FALSE>>
        ELSE <<[w EXCEPT !.attempts[key] = Append(keyAttempts, w.now)], TRUE>>

reset(w, key) == [w EXCEPT !.attempts[key] = <<>>]

----------------------------------------------------------------------------
(* SuperAdminApiClient.request: the request is in flight until a response, *)
(* a network failure or the abort timer ends it.  A response is what       *)
(* handleResponse returns (status 200) or the SuperAdminApiError thrown:   *)
(* the error carries .status and has no .response property.                *)

NewTaskId(w) ==
    CHOOSE i \in 1 .. Cardinality(w.tasks) + 1 : i \notin {t.id : t \in w.tasks}

\* caller: who awaits verifyToken / login; stage: where verifyToken awaits
request(w, caller, req, stage) ==
    Emit([w EXCEPT !.tasks = @ \cup {[id |-> NewTaskId(w), caller |-> caller,
                                      req |-> req, stage |-> stage,
                                      sentAt |-> w.now]}],
         req)

Ok(body) == [status |-> 200, body |-> body]
\* the status of the error thrown is the one in the error body, which is the
\* HTTP status (interface ApiError), or 0 / 408 when there was no answer
ApiError(status) == [status |-> status, body |-> [error |-> TRUE]]

\* error.response?.status of a caught error
ResponseStatus(error) ==
    IF "response" \in DOMAIN error THEN error.response.status ELSE 0

ValidateResponses ==
    {Ok([success |-> TRUE, user |-> {"superadmin"}]),
     Ok([success |-> TRUE, user |-> {"admin"}]),
     Ok([success |-> FALSE, user |-> {}]),
     ApiError(401), ApiError(500), ApiError(0)}

\* a new access token expires AccessTtlSec after it is issued
RefreshResponses(t) ==
    {Ok([accessToken |-> {t \div 1000 + AccessTtlSec}, user |-> {"superadmin"}]),
     Ok([accessToken |-> {t \div 1000 + AccessTtlSec}, user |-> {"admin"}]),
     Ok([accessToken |-> {}, user |-> {}]),
     ApiError(401), ApiError(403), ApiError(0)}

LoginResponses(t) ==
    {Ok([accessToken |-> {t \div 1000 + AccessTtlSec}, refreshToken |-> {1},
         user |-> {"superadmin"}]),
     Ok([accessToken |-> {t \div 1000 + AccessTtlSec}, refreshToken |-> {1},
         user |-> {"admin"}]),
     Ok([accessToken |-> {}, refreshToken |-> {}, user |-> {}]),
     ApiError(401), ApiError(429), ApiError(0)}

TimeoutError == ApiError(408)

----------------------------------------------------------------------------
(* AuthService *)

isTokenExpired(token, t) == \A exp \in token : exp < t \div 1000

\* the POST /auth/logout it sends is not awaited and its failure is ignored
logout(w) == Emit([w EXCEPT !.store = EmptyStore], "logout")

isAuthenticated(w) == w.store.adminToken # {}

startTokenRefresh(w) ==
    [w EXCEPT !.refreshers = @ \cup
        {[id |-> Cardinality(w.refreshers) + 1, due |-> w.now + TokenRefreshMs]}]

\* verifyToken returns result ("ok", or the error of a failure) to its caller:
\* validateSessionWithBackend drops it, the startTokenRefresh callback
\* redirects on a failure, App.initializeAuth starts the session or logs out
verifyDone(w0, caller, result) ==
    LET w == [w0 EXCEPT !.out.result = result]
        success == result = "ok"
    IN  CASE caller = "periodic" -> w
          [] caller = "tokenRefresh" -> IF success THEN w ELSE Emit(w, "redirect")
          [] caller = "bootstrap" ->
                IF success
                THEN start(startActivityTracking(startTokenRefresh(
                         [w EXCEPT !.app = [boot |-> "done",
                                            isAuthenticated |-> TRUE]])))
                ELSE [logout(w) EXCEPT !.app = [boot |-> "done",
                                                isAuthenticated |-> FALSE]]

\* refreshAccessToken up to its request: FALSE when it returns false at once
refreshCanSend(w) == w.store.adminRefreshToken # {}

\* refreshAccessToken after its request: <<world, result>>
refreshAccessToken(w, response) ==
    IF response.status = 200
    THEN IF response.body.accessToken # {} /\ response.body.user # {}
         THEN IF response.body.user # {"superadmin"}
              THEN <<logout(w), FALSE>>
              ELSE <<[w EXCEPT !.store.adminToken = response.body.accessToken,
                               !.store.adminUser = response.body.user], TRUE>>
         ELSE <<w, FALSE>>
    ELSE IF ResponseStatus(response) \in {401, 403}
         THEN <<logout(w), FALSE>>
         ELSE <<w, FALSE>>

\* verifyToken from its entry to its first request (or its return)
verifyToken(w, caller) ==
    IF w.store.adminToken = {} THEN verifyDone(w, caller, "No token found")
    ELSE IF isTokenExpired(w.store.adminToken, w.now)
         THEN IF refreshCanSend(w)
              THEN request(w, caller, "refresh", "expired")
              ELSE verifyDone(logout(w), caller, "Token expired and refresh failed")
         ELSE request(w, caller, "validate", "validate")

\* verifyToken when the refresh it awaits has returned
verifyAfterRefresh(w, caller, stage, refreshSuccess) ==
    IF stage = "expired"
    THEN IF refreshSuccess THEN request(w, caller, "validate", "validate")
         ELSE verifyDone(logout(w), caller, "Token expired and refresh failed")
    ELSE IF refreshSuccess THEN verifyToken(w, caller)
         ELSE verifyDone(logout(w), caller, "Token verification failed")

\* verifyToken logging out on a 401 from /auth/validate without a refresh
verifyAfterValidate_LogoutOn401(w, caller, response) ==
    IF response.status = 200
    THEN IF response.body.success /\ response.body.user # {}
         THEN IF response.body.user # {"superadmin"}
              THEN verifyDone(logout(w), caller, "Insufficient permissions")
              ELSE verifyDone([w EXCEPT !.store.adminUser = response.body.user],
                              caller, "ok")
         ELSE verifyDone(w, caller, "Invalid token")
    ELSE IF response.status = 401
         THEN verifyDone(logout(w), caller, "Token verification failed")
         ELSE verifyDone(w, caller, "Token verification failed")

\* verifyToken when GET /auth/validate has answered
verifyAfterValidate(w, caller, response) ==
    IF response.status = 200
    THEN IF response.body.success /\ response.body.user # {}
         THEN IF response.body.user # {"superadmin"}
              THEN verifyDone(logout(w), caller, "Insufficient permissions")
              ELSE verifyDone([w EXCEPT !.store.adminUser = response.body.user],
                              caller, "ok")
         ELSE verifyDone(w, caller, "Invalid token")
    ELSE IF response.status = 401
         THEN IF refreshCanSend(w)
              THEN request(w, caller, "refresh", "rejected")
              ELSE verifyDone(logout(w), caller, "Token verification failed")
         ELSE verifyDone(w, caller, "Token verification failed")

\* login storing what the backend sends whatever the user's role
login_NoRoleCheck(w, response) ==
    IF /\ response.status = 200
       /\ response.body.accessToken # {} /\ response.body.user # {}
    THEN <<[w EXCEPT !.store = [adminToken |-> response.body.accessToken,
                                adminRefreshToken |-> response.body.refreshToken,
                                adminUser |-> response.body.user]], TRUE>>
    ELSE <<w, FALSE>>

\* AuthService.login after POST /login has answered: <<world, success>>
login(w, response) ==
    IF /\ response.status = 200
       /\ response.body.accessToken # {} /\ response.body.user # {}
       /\ response.body.user = {"superadmin"}
    THEN <<[w EXCEPT !.store = [adminToken |-> response.body.accessToken,
                                adminRefreshToken |-> response.body.refreshToken,
                                adminUser |-> response.body.user]], TRUE>>
    ELSE <<w, FALSE>>

\* Login.handleSubmit once AuthService.login has returned
handleSubmit(w, response) ==
    LET r == login(w, response)
    IN  IF r[2]
        THEN startActivityTracking(startTokenRefresh(
                 [reset(r[1], LoginKey) EXCEPT !.app.isAuthenticated = TRUE]))
        ELSE r[1]

----------------------------------------------------------------------------
(* AdminSessionManager, periodic part *)

validateSessionWithBackend(w) ==
    IF w.store.adminToken = {} THEN w ELSE verifyToken(w, "periodic")

\* the body of the setInterval callback
periodicCheck(w) ==
    IF ~w.state.isActive THEN w
    ELSE LET timeSinceActivity == w.now - w.state.lastActivity
             timeoutMs == w.config.timeoutMinutes * 60 * 1000
         IN  IF timeSinceActivity >= timeoutMs THEN handleSessionTimeout(w)
             ELSE IF timeSinceActivity % ValidateEveryMs < w.config.checkIntervalMs
                  THEN validateSessionWithBackend(w)
                  ELSE w

\* Layout.handleLogout
handleLogout(w) ==
    [logout(stop(w)) EXCEPT !.app.isAuthenticated = FALSE]

\* App.initializeAuth up to its await
initializeAuth(w) ==
    IF w.store.adminToken # {} /\ w.store.adminUser # {}
    THEN verifyToken([w EXCEPT !.app.boot = "verifying"], "bootstrap")
    ELSE [w EXCEPT !.app = [boot |-> "done", isAuthenticated |-> FALSE]]

----------------------------------------------------------------------------
(* Steps *)

Apply(w) ==
    /\ Cardinality(w.tasks) <= MaxTasks
    /\ now' = w.now
    /\ config' = w.config
    /\ state' = w.state
    /\ listeners' = w.listeners
    /\ handlers' = w.handlers
    /\ timers' = w.timers
    /\ intervals' = w.intervals
    /\ store' = w.store
    /\ tasks' = w.tasks
    /\ refreshers' = w.refreshers
    /\ app' = w.app
    /\ tracking' = w.tracking
    /\ attempts' = w.attempts
    /\ allowed' = w.allowed
    /\ out' = w.out

\* what the constructor of AdminSessionManager sets (lastActivity: Date.now())
DefaultConfig ==
    [timeoutMinutes |-> DefaultTimeoutMinutes,
     warningMinutes |-> DefaultWarningMinutes,
     checkIntervalMs |-> DefaultCheckIntervalMs]

InitialState(t) ==
    [lastActivity |-> t, isActive |-> FALSE, warningShown |-> FALSE,
     timeoutId |-> 0, warningTimeoutId |-> 0]

AppPending == [boot |-> "pending", isAuthenticated |-> FALSE]

\* the static fields of SessionManager when the module is loaded at time t
InitialTracking(t) ==
    [lastActivity |-> t, timeoutWarningShown |-> FALSE, handlers |-> 0,
     intervals |-> {}]

\* new RateLimiter(): no key in the map, which reads as an empty list
NoAttempts == [k \in Keys |-> <<>>]

Init ==
    /\ now = 0
    /\ config = DefaultConfig
    /\ state = InitialState(0)
    /\ listeners = <<>>
    /\ handlers = 0
    /\ timers = {}
    /\ intervals = {}
    /\ store \in InitialStores
    /\ tasks = {}
    /\ refreshers = {}
    /\ app = AppPending
    /\ tracking = InitialTracking(0)
    /\ attempts = NoAttempts
    /\ allowed = NoAttempts
    /\ out = NoOut

\* window.location.href = '/login' loads the page anew: the script's objects,
\* timers and requests are gone, localStorage stays
Reload ==
    /\ "redirect" \in out.effects
    /\ Apply(Op([World EXCEPT !.config = DefaultConfig,
                              !.state = InitialState(now),
                              !.listeners = <<>>, !.handlers = 0,
                              !.timers = {}, !.intervals = {},
                              !.tasks = {}, !.refreshers = {},
                              !.app = AppPending,
                              !.tracking = InitialTracking(now),
                              !.attempts = NoAttempts,
                              !.allowed = NoAttempts],
                "reload", 0))

\* time passes
Tick ==
    \E d \in FineSteps \cup {CoarseStep} :
        /\ now + d <= MaxNow
        /\ \A i \in intervals : i.due > now
        /\ \A t \in tasks : now - t.sentAt < ApiTimeoutMs
        /\ d \in FineSteps => (now % CoarseStep) + d <= FineWindow
        /\ Apply(Op([World EXCEPT !.now = now + d], "tick", 0))

Start ==
    /\ ~state.isActive => Cardinality(intervals) < MaxStarts
    /\ Apply(start(Op(World, "start", 0)))

Stop == Apply(stop(Op(World, "stop", 0)))

ExtendSession == Apply(extendSession(Op(World, "extendSession", 0)))

UpdateConfig ==
    \E c \in ConfigUpdates : Apply(updateConfig(Op(World, "updateConfig", 0), c))

AddListener ==
    \E l \in Listeners : Apply(addListener(Op(World, "addListener", 0), l))

RemoveListener ==
    \E l \in Range(listeners) :
        Apply(removeListener(Op(World, "removeListener", 0), l))

\* a callback that throws subscribes
AddFaultyListener ==
    \E l \in FaultyListeners : Apply(addListener(Op(World, "addListener", 0), l))

\* a user-interaction event reaches the handlers attached to the document:
\* each of the n attached handleActivity functions runs
RECURSIVE dispatchActivity(_, _)
dispatchActivity(w, n) ==
    IF n = 0 THEN w ELSE dispatchActivity(handleActivity(w), n - 1)

\* the event is of a type both the manager and the tracker of security.ts
\* listen to (mousedown, mousemove, keypress, scroll, touchstart)
dispatchEvent(w) ==
    dispatchActivity(IF w.tracking.handlers > 0 THEN updateActivity(w) ELSE w,
                     w.handlers)

Activity ==
    /\ handlers > 0 \/ tracking.handlers > 0
    /\ Apply(dispatchEvent(Op(World, "activity", 0)))

\* a pending timer may run once it is due and no earlier one is pending
Runnable(t) ==
    /\ t \in timers
    /\ t.due <= now
    /\ \A u \in timers : u.due >= t.due
    /\ t.kind = "timeout" =>
          \A u \in timers : u.kind = "warning" => u.due > t.due

\* the warning timer runs; answer is what the user answers if confirm() is
\* shown.  confirm() blocks the script, so the step ends when it returns: a
\* timer that runs late and a prompt answered late are the same step
WarningPrompt(answer) ==
    \E t \in timers :
        /\ Runnable(t) /\ t.kind = "warning"
        /\ Apply(showTimeoutWarning(
               Op([World EXCEPT !.timers = @ \ {t}], "warningTimer", 0), answer))

WarningTimer == \E answer \in BOOLEAN : WarningPrompt(answer)

TimeoutTimer ==
    \E t \in timers :
        /\ Runnable(t) /\ t.kind = "timeout"
        /\ Apply(handleSessionTimeout(
               Op([World EXCEPT !.timers = @ \ {t}], "timeoutTimer", 0)))

\* the abort timer of a request, set before a callback fell due, runs first
NoAbortBefore(due) == \A t \in tasks : t.sentAt + ApiTimeoutMs > due

PeriodicCheck ==
    \E i \in intervals :
        /\ i.due <= now
        /\ NoAbortBefore(i.due)
        /\ Apply(periodicCheck(
               Op([World EXCEPT !.intervals =
                      (@ \ {i}) \cup {[i EXCEPT !.due = now + i.period,
                                                !.ticks = @ + 1]}],
                  "periodicCheck", i.id)))

\* App mounts
InitializeAuth ==
    /\ app.boot = "pending"
    /\ Apply(initializeAuth(Op(World, "initializeAuth", 0)))

\* the login form is submitted; this is a submission that passed the form's
\* validation and its rate limiter (the limiter itself is checked in
\* SpecLimiter)
LoginSubmit ==
    /\ app.boot = "done" /\ ~app.isAuthenticated
    /\ \A t \in tasks : t.req # "login"
    /\ Cardinality(refreshers) < MaxRefreshers
    /\ Apply(request(Op(World, "loginSubmit", 0), "login", "login", "login"))

\* the logout button of the layout
HandleLogout ==
    /\ app.isAuthenticated
    /\ Apply(handleLogout(Op(World, "handleLogout", 0)))

\* the callback of a startTokenRefresh interval
TokenRefresh ==
    \E r \in refreshers :
        /\ r.due <= now
        /\ NoAbortBefore(r.due)
        /\ LET w == Op([World EXCEPT !.refreshers =
                          (@ \ {r}) \cup {[r EXCEPT !.due = now + TokenRefreshMs]}],
                       "tokenRefresh", r.id)
           IN  Apply(IF isAuthenticated(w) THEN verifyToken(w, "tokenRefresh") ELSE w)

\* the continuation of the call awaiting task t, given the request's outcome
Continue(w, t, response) ==
    CASE t.req = "login" -> handleSubmit(w, response)
      [] t.req = "validate" -> verifyAfterValidate(w, t.caller, response)
      [] t.req = "refresh" ->
            LET r == refreshAccessToken(w, response)
            IN  verifyAfterRefresh(r[1], t.caller, t.stage, r[2])

Answers(t) ==
    CASE t.req = "login" -> LoginResponses(now)
      [] t.req = "validate" -> ValidateResponses
      [] t.req = "refresh" -> RefreshResponses(now)

\* the backend answers a request, or the network fails, before the abort
Respond ==
    \E t \in tasks :
        /\ now - t.sentAt < ApiTimeoutMs
        /\ \E response \in Answers(t) :
              Apply(Continue(Answered(Op(World, "respond", 0), t, response),
                             t, response))

\* the abort timer of a request ends it
RequestTimeout ==
    \E t \in tasks :
        /\ now - t.sentAt >= ApiTimeoutMs
        /\ Apply(Continue(Answered(Op(World, "requestTimeout", 0), t, TimeoutError),
                          t, TimeoutError))

\* the network is down: every request fails
NetworkError ==
    \E t \in tasks :
        /\ now - t.sentAt < ApiTimeoutMs
        /\ Apply(Continue(Answered(Op(World, "networkError", 0), t, ApiError(0)),
                          t, ApiError(0)))

AppTick ==
    /\ now + CoarseStep <= MaxNowApp
    /\ \A i \in intervals : i.due > now
    /\ \A r \in refreshers : r.due > now
    /\ \A t \in tasks : now - t.sentAt < ApiTimeoutMs
    /\ Apply(Op([World EXCEPT !.now = now + CoarseStep], "tick", 0))

Next ==
    \/ Tick
    \/ Start
    \/ Stop
    \/ ExtendSession
    \/ UpdateConfig
    \/ AddListener
    \/ RemoveListener
    \/ Activity
    \/ WarningTimer
    \/ TimeoutTimer
    \/ PeriodicCheck
    \/ NetworkError
    \/ RequestTimeout
    \/ Reload

Spec == Init /\ [][Next]_vars

\* the manager and its listeners, one of which throws; nothing is stored, so
\* that no backend request is made
InitListeners == Init /\ store = EmptyStore

NextListeners ==
    \/ Tick
    \/ Start
    \/ Stop
    \/ ExtendSession
    \/ UpdateConfig
    \/ AddListener
    \/ AddFaultyListener
    \/ RemoveListener
    \/ Activity
    \/ WarningTimer
    \/ TimeoutTimer
    \/ PeriodicCheck
    \/ Reload

SpecListeners == InitListeners /\ [][NextListeners]_vars

\* the application around the manager, with the backend answering
NextApp ==
    \/ AppTick
    \/ InitializeAuth
    \/ LoginSubmit
    \/ HandleLogout
    \/ TokenRefresh
    \/ UpdateConfig
    \/ Activity
    \/ WarningTimer
    \/ TimeoutTimer
    \/ PeriodicCheck
    \/ Respond
    \/ RequestTimeout
    \/ Reload

SpecApp == Init /\ [][NextApp]_vars

\* the calls of verifyToken the application makes by itself (bootstrap,
\* periodic validation, token refresh), every request being settled in the
\* end: fetch resolves or rejects, or the abort timer of request() fires
NextVerify ==
    \/ AppTick
    \/ InitializeAuth
    \/ TokenRefresh
    \/ PeriodicCheck
    \/ Respond
    \/ RequestTimeout
    \/ Reload

SpecVerify ==
    Init /\ [][NextVerify]_vars /\ WF_vars(Respond) /\ WF_vars(RequestTimeout)

----------------------------------------------------------------------------
(* The inactivity tracker of security.ts at work in the application, over  *)
(* an hour, with a backend that accepts every request and a user who       *)
(* answers every continuation prompt with "continue".                      *)

\* every setInterval timer of the page
AllIntervals ==
    {i.due : i \in intervals \cup refreshers \cup tracking.intervals}

\* the App mounts as the page loads and the backend answers without delay:
\* time passes once initializeAuth has run and no request is in flight.  The
\* clock moves to the next time a callback is due, or by CoarseStep when
\* none is due before: no callback is passed over
TrackingTick ==
    \E d \in {CoarseStep} \cup {due - now : due \in AllIntervals} :
        /\ d > 0 /\ now + d <= MaxNowTracking
        /\ \A due \in AllIntervals : due >= now + d
        /\ app.boot # "pending" /\ tasks = {}
        /\ Apply(Op([World EXCEPT !.now = now + d], "tick", 0))

\* the callback of a startActivityTracking interval; answer is what the user
\* answers if confirm() is shown
SessionCheck(answer) ==
    \E i \in tracking.intervals :
        /\ i.due <= now
        /\ Apply(checkSessionTimeout(
               Op([World EXCEPT !.tracking.intervals =
                      (@ \ {i}) \cup
                          {[i EXCEPT !.due = now + ActivityCheckIntervalMs]}],
                  "sessionCheck", i.id),
               answer))

SessionCheckContinue == SessionCheck(TRUE)

\* the answer of a backend that accepts the request
Accepting(t) ==
    CHOOSE response \in Answers(t) :
        response.status = 200 /\ response.body.user = {"superadmin"}

Accept ==
    \E t \in tasks :
        /\ now - t.sentAt < ApiTimeoutMs
        /\ Apply(Continue(Answered(Op(World, "respond", 0), t, Accepting(t)),
                          t, Accepting(t)))

NextTracking ==
    \/ TrackingTick
    \/ InitializeAuth
    \/ LoginSubmit
    \/ Accept
    \/ Activity
    \/ SessionCheckContinue
    \/ PeriodicCheck
    \/ TokenRefresh
    \/ Reload

SpecTracking == Init /\ [][NextTracking]_vars

----------------------------------------------------------------------------
(* The rate limiter by itself: calls of isAllowed with the limit and the   *)
(* window of the login form, for two keys, and resets, as time passes.     *)

LimiterTick ==
    /\ now + CoarseStep <= MaxNowLimiter
    /\ Apply(Op([World EXCEPT !.now = now + CoarseStep], "tick", 0))

\* out.req is the key of the call, out.result what isAllowed returned
IsAllowed ==
    \E k \in Keys :
        /\ \A k2 \in Keys \ {k} : Len(allowed[k]) + Len(allowed[k2]) < MaxCalls
        /\ LET r == isAllowed(Op(World, "isAllowed", 0), k,
                              LoginMaxAttempts, LoginWindowMs)
           IN  Apply([r[1] EXCEPT
                        !.allowed[k] = IF r[2] THEN Append(@, now) ELSE @,
                        !.out.req = k,
                        !.out.result = IF r[2] THEN "allowed" ELSE "denied"])

Reset ==
    \E k \in Keys :
        Apply([reset(Op(World, "reset", 0), k) EXCEPT !.allowed[k] = <<>>,
                                                     !.out.req = k])

InitLimiter == Init /\ store = EmptyStore

NextLimiter ==
    \/ LimiterTick
    \/ IsAllowed
    \/ Reset

SpecLimiter == InitLimiter /\ [][NextLimiter]_vars

----------------------------------------------------------------------------
(* The claims *)

RefreshesInFlight == {t \in tasks : t.req = "refresh"}

\* C1: while one refresh awaits the backend, further refreshAccessToken calls
\* issue no second POST /auth/refresh: at most one is in flight at a time.
C1_SingleRefreshInFlight == Cardinality(RefreshesInFlight) <= 1

\* an interval callback of an earlier activation: a stop() came after its
\* setInterval, since start() only activates a stopped session
StaleInterval(id) == id < Cardinality(intervals)

\* C2: a callback the manager scheduled before a stop() never again produces
\* an effect (prompt, credential clearing, redirect, backend validation),
\* also after a later start().
C2_NoStaleCallbackEffect ==
    (out.op = "periodicCheck" /\ StaleInterval(out.by)) => out.effects = {}

\* C3: while isActive is false neither a warning timer nor a timeout timer
\* is pending.
C3_InactiveHasNoTimers == ~state.isActive => timers = {}

\* C4 as stated: while isActive is false the token store holds no access token.
C4_InactiveHasNoToken == ~state.isActive => store.adminToken = {}

\* the step was an expiry (handleSessionTimeout ran) or the logout handler
SessionEnded == "alert" \in out.effects \/ out.op = "handleLogout"

\* C4 as amended: at the end of an expiry or of the logout handler isActive
\* is false and no access token is stored.
C4_EndedHasNoToken ==
    SessionEnded => (~state.isActive /\ store.adminToken = {})

C4_Witness ==
    /\ SessionEnded
    /\ store.adminRefreshToken # {}
    /\ out.op \in {"timeoutTimer", "warningTimer", "periodicCheck"}

\* every outcome a refresh request in flight can have
RefreshOutcomes ==
    {refreshAccessToken(World, r) : r \in RefreshResponses(now) \cup {TimeoutError}}

\* C5: whenever refreshAccessToken reports false, the token store is empty
\* by then.
C5_FailedRefreshClearsStore ==
    RefreshesInFlight # {} =>
        \A r \in RefreshOutcomes : r[2] = FALSE => r[1].store = EmptyStore

\* the step handled an authoritative rejection: /auth/refresh answered 401,
\* or /auth/validate returned a user who is no superadmin
Rejected ==
    \/ out.req = "refresh" /\ out.status = 401
    \/ out.result = "Insufficient permissions"

\* C6: after an authoritative rejection the session manager is stopped.
C6_RejectionStopsManager == Rejected => ~state.isActive

\* an expiry trigger: the timeout timer, the periodic check, or the warning
\* timer with the prompt (if shown) declined
ExpiryTrigger == TimeoutTimer \/ PeriodicCheck \/ WarningPrompt(FALSE)

\* C7: an expiry trigger that arrives when the session is already stopped
\* changes neither the session state nor the token store and causes no
\* redirect (so that clearing and redirect happen once per expiry).
C7_ExpiryOnStoppedIsNoOp ==
    [][(~state.isActive /\ ExpiryTrigger) =>
          /\ state' = state
          /\ store' = store
          /\ "redirect" \notin out'.effects]_vars

\* C8: when the session expires the manager is stopped and the token store
\* holds no access token, refresh token or user.
C8_ExpiryClearsStore ==
    "alert" \in out.effects => (~state.isActive /\ store = EmptyStore)

\* C9: at most one timeout timer and one warning timer are pending, and they
\* are the ones the manager holds the handles of.
C9_OneTimerOfEachKind ==
    /\ Cardinality({t \in timers : t.kind = "timeout"}) <= 1
    /\ Cardinality({t \in timers : t.kind = "warning"}) <= 1
    /\ \A t \in timers :
          t.id = IF t.kind = "timeout" THEN state.timeoutId
                 ELSE state.warningTimeoutId

\* a re-arming of an active session whose two timers were still pending
C9_Witness ==
    /\ out.op \in {"activity", "extendSession", "updateConfig"}
    /\ state.isActive /\ Cardinality(timers) = 2
    /\ \E t \in timers : t.kind = "timeout" /\ t.due > now
    /\ state.lastActivity > 0

\* C10: an activity event less than 1000 ms after lastActivity changes
\* neither the state nor the timers and notifies no listener, and an
\* activity event that moves lastActivity moves it by at least 1000 ms.
C10_Throttle ==
    [][out'.op = "activity" =>
          /\ now' - state.lastActivity < ThrottleMs =>
                (state' = state /\ timers' = timers /\ out'.notified = {})
          /\ state'.lastActivity # state.lastActivity =>
                state'.lastActivity - state.lastActivity >= ThrottleMs]_vars

\* an event 1..999 ms after the last accepted one was ignored, with a
\* listener subscribed
C10_Witness ==
    /\ out.op = "activity"
    /\ now - state.lastActivity > 0 /\ now - state.lastActivity < ThrottleMs
    /\ listeners # <<>> /\ out.notified = {}
    /\ timers # {}

\* the timers scheduleTimeouts arms at time t under configuration c, handles
\* left aside
Armed(c, t) ==
    {[kind |-> "warning",
      due |-> t + Max(0, (c.timeoutMinutes - c.warningMinutes) * 60 * 1000)],
     [kind |-> "timeout", due |-> t + c.timeoutMinutes * 60 * 1000]}

Pending(ts) == {[kind |-> t.kind, due |-> t.due] : t \in ts}

\* C11: an accepted activity event on an active session sets lastActivity to
\* the current time, clears warningShown, leaves exactly the two timers
\* re-armed from now (so that timeRemaining is the full timeoutMinutes
\* budget), and then invokes every listener, which sees the updated session.
C11_AcceptedActivityRearms ==
    [][(out'.op = "activity" /\ state.isActive
            /\ now' - state.lastActivity >= ThrottleMs) =>
          /\ state'.lastActivity = now'
          /\ ~state'.warningShown
          /\ Pending(timers') = Armed(config, now')
          /\ getSessionInfo(World').timeRemaining =
                 config.timeoutMinutes * 60 * 1000
          /\ out'.notified = Range(listeners)
          /\ out'.seen \subseteq {getSessionInfo(World')}]_vars

\* an accepted activity event on an active session, later than its start,
\* with a listener subscribed
C11_Witness ==
    /\ out.op = "activity" /\ state.isActive
    /\ state.lastActivity = now /\ now >= ThrottleMs
    /\ out.notified # {} /\ out.seen # {}
    /\ Cardinality(timers) = 2

\* C12: when listeners are notified and one of them throws, every subscribed
\* listener is still invoked, now and at every later notification, no
\* exception leaves the manager, and the state, the timers and the listener
\* set are what the event gives when nobody is subscribed.
C12_ListenerFailureIsolated ==
    [][out'.op = "activity" =>
          LET r == dispatchActivity(
                       Op([World EXCEPT !.listeners = <<>>], "activity", 0),
                       handlers)
          IN  /\ state' = r.state
              /\ timers' = r.timers
              /\ listeners' = listeners
              /\ out'.notified # {} =>
                     (out'.notified = Range(listeners) /\ ~out'.uncaught)]_vars

\* a notification in which the throwing listener ran first and the other
\* listener ran after it
C12_Witness ==
    /\ out.op = "activity"
    /\ listeners = <<"faulty", "indicator">>
    /\ out.notified = {"faulty", "indicator"}
    /\ state.lastActivity = now

\* the step changed the session in a way its listeners are told about: an
\* accepted activity, the warning prompt, an expiry, a configuration change
StateRelevantChange ==
    \/ out'.op = "activity" /\ now' - state.lastActivity >= ThrottleMs
    \/ "confirm" \in out'.effects
    \/ "alert" \in out'.effects
    \/ out'.op = "updateConfig"

\* C13: every subscribed listener is invoked after each state-relevant
\* change of the session (accepted activity, warning, expiry, configuration
\* change).
C13_ListenersToldOfEveryChange ==
    [][(listeners # <<>> /\ StateRelevantChange) =>
          out'.notified = Range(listeners)]_vars

\* C14: updateConfig(partial) replaces exactly the given fields; on an
\* active session it leaves exactly the two timers armed from now under the
\* new configuration, and timeRemaining is the new budget less the time since
\* the unchanged lastActivity; on an inactive session it arms no timer.
C14_UpdateConfigRearms ==
    [][out'.op = "updateConfig" =>
          /\ \E c \in ConfigUpdates :
                 /\ config'.timeoutMinutes = c.timeoutMinutes
                 /\ config'.warningMinutes =
                        IF c.warningMinutes = NoChange THEN config.warningMinutes
                        ELSE c.warningMinutes
                 /\ config'.checkIntervalMs = config.checkIntervalMs
          /\ state'.lastActivity = state.lastActivity
          /\ state.isActive =>
                 /\ Pending(timers') = Armed(config', now')
                 /\ getSessionInfo(World').timeRemaining =
                        Max(0, config'.timeoutMinutes * 60 * 1000
                               - (now' - state.lastActivity))
          /\ ~state.isActive => timers' = timers]_vars

\* a 480-minute session whose timeout was shortened to 10 minutes some time
\* after its last activity
C14_Witness ==
    /\ out.op = "updateConfig" /\ state.isActive
    /\ now > state.lastActivity
    /\ config.timeoutMinutes = 10
    /\ getSessionInfo(World).timeRemaining < 10 * 60 * 1000
    /\ \E t \in timers : t.kind = "timeout" /\ t.due = now + 10 * 60 * 1000

\* the warning prompt was shown and the user chose to continue
ContinuationConfirmed ==
    out.op = "warningTimer" /\ "confirm" \in out.effects /\ "alert" \notin out.effects

\* C15: when the user confirms continuation at t1, lastActivity is t1, the
\* timeout armed before is no longer pending (only the one at t1 + T is), and
\* the next warning is due at t1 + (T - W).
C15_ConfirmRearmsFromNow ==
    ContinuationConfirmed =>
        /\ state.lastActivity = now
        /\ ~state.warningShown
        /\ Pending(timers) = Armed(config, now)

\* a session with T = 10 and W = 5 minutes whose warning, due at a multiple
\* of 5 minutes, was confirmed later than that: the next one is due 5 minutes
\* after the confirmation
C15_Witness ==
    /\ ContinuationConfirmed /\ state.isActive
    /\ config.timeoutMinutes = 10 /\ config.warningMinutes = 5
    /\ now > CoarseStep /\ now % CoarseStep > 0
    /\ Pending(timers) = {[kind |-> "warning", due |-> now + 5 * 60 * 1000],
                           [kind |-> "timeout", due |-> now + 10 * 60 * 1000]}

\* C16: start() on a session that is already active changes nothing:
\* lastActivity, warningShown and the timers stay, no activity handler is
\* attached and no periodic check is added.
C16_StartIdempotent ==
    [][(out'.op = "start" /\ state.isActive) =>
          /\ state' = state
          /\ timers' = timers
          /\ handlers' = handlers
          /\ intervals' = intervals]_vars

\* a start() on an active session whose last activity is later than its start
C16_Witness ==
    /\ out.op = "start" /\ state.isActive
    /\ now > 0 /\ state.lastActivity > 0 /\ state.lastActivity < now
    /\ handlers = 1 /\ Cardinality(intervals) = 1
    /\ Cardinality(timers) = 2

\* C17: stop() leaves the token store as it is; on an active session it
\* leaves no timer pending and no handle held, and on a stopped session it
\* changes nothing.
C17_StopIdempotentKeepsStore ==
    [][out'.op = "stop" =>
          /\ store' = store
          /\ ~state'.isActive
          /\ state.isActive =>
                 /\ timers' = {}
                 /\ state'.timeoutId = 0 /\ state'.warningTimeoutId = 0
          /\ ~state.isActive =>
                 /\ state' = state
                 /\ timers' = timers
                 /\ handlers' = handlers
                 /\ intervals' = intervals]_vars

\* a stop() that ended an active session, with credentials stored
C17_Witness ==
    /\ out.op = "stop" /\ ~state.isActive
    /\ handlers > 0 /\ timers = {}
    /\ store.adminToken # {} /\ store.adminRefreshToken # {}
    /\ store.adminUser # {}

\* C18: between a stop() and the next start() a user-interaction event
\* changes neither lastActivity nor warningShown, arms no timer and notifies
\* no listener.
C18_StoppedIgnoresActivity ==
    [][(out'.op = "activity" /\ ~state.isActive) =>
          /\ state' = state
          /\ timers' = timers
          /\ out'.notified = {}]_vars

\* C19: when a request made for the periodic validation fails without an
\* HTTP response (network failure, or the abort after the request timeout),
\* the stored credentials stay as they are and nothing redirects to /login.
C19_TransientFailureKeepsCredentials ==
    [][\A t \in tasks :
          (/\ t.caller = "periodic"
           /\ out'.op \in {"networkError", "requestTimeout"}
           /\ out'.by = t.id /\ t \notin tasks') =>
              (store' = store /\ "redirect" \notin out'.effects)]_vars

\* the step ended request t with an answer of the backend or the abort
Settled(t) ==
    /\ t \in tasks /\ t \notin tasks'
    /\ out'.op \in {"respond", "requestTimeout"} /\ out'.by = t.id

\* C20: when /auth/validate answers 401 and a refresh token is stored, the
\* step clears nothing and sends the refresh request; when that refresh has
\* answered, either the credentials are cleared (logout), or the answer was
\* a 200, an access token is stored and the validation is sent again.
C20_RefreshBeforeLogout ==
    [][\A t \in tasks :
          /\ (Settled(t) /\ t.req = "validate" /\ out'.status = 401
                  /\ store.adminRefreshToken # {}) =>
                 /\ store' = store
                 /\ "refresh" \in out'.effects
                 /\ "logout" \notin out'.effects
          /\ (Settled(t) /\ t.req = "refresh" /\ t.stage = "rejected") =>
                 IF "logout" \in out'.effects
                 THEN store' = EmptyStore /\ "validate" \notin out'.effects
                 ELSE /\ out'.status = 200
                      /\ store'.adminToken # {}
                      /\ "validate" \in out'.effects]_vars

\* /auth/validate answered 401 with credentials stored and the refresh was sent
C20_Witness ==
    /\ out.op = "respond" /\ out.req = "validate" /\ out.status = 401
    /\ "refresh" \in out.effects
    /\ store.adminToken # {} /\ store.adminRefreshToken # {}
    /\ \E t \in tasks : t.req = "refresh" /\ t.stage = "rejected"


\* C21: immediately after a start() that activates the session, also one
\* that follows a stop() or an expiry during which a warning was shown,
\* warningShown is false.
C21_StartResetsWarningShown ==
    [][(out'.op = "start" /\ ~state.isActive /\ state'.isActive) =>
          ~state'.warningShown]_vars


\* C22: in every state in which getSessionInfo().isActive is true an access
\* token is present in the token store.
C22_ActiveHasToken ==
    getSessionInfo(World).isActive => store.adminToken # {}


\* C24: whenever a timeout timer is pending, its deadline is lastActivity +
\* timeoutMinutes, a pending warning timer's deadline is lastActivity +
\* (timeoutMinutes - warningMinutes), and the time left until the timeout
\* timer fires is the timeRemaining that getSessionInfo() reports.
C24_DeadlinesFollowLastActivity ==
    \A t \in timers :
        t.kind = "timeout" =>
            /\ Pending(timers) \subseteq Armed(config, state.lastActivity)
            /\ Max(0, t.due - now) = getSessionInfo(World).timeRemaining


\* C26: login, refreshAccessToken and verifyToken write an access token, a
\* refresh token or a user record to the token store only when the user of
\* the backend's answer has role 'superadmin', and a stored adminUser has
\* role 'superadmin' in every state.
C26_OnlySuperadminStored ==
    [][/\ store'.adminUser \subseteq {"superadmin"}
       /\ (out'.op = "respond" /\ out'.user # {"superadmin"}) =>
             /\ store'.adminToken \subseteq store.adminToken
             /\ store'.adminRefreshToken \subseteq store.adminRefreshToken
             /\ store'.adminUser \subseteq store.adminUser]_vars

\* POST /login answered 200 for a user who is no superadmin, nothing stored
C26_Witness ==
    /\ out.op = "respond" /\ out.req = "login" /\ out.status = 200
    /\ out.user = {"admin"}
    /\ store = EmptyStore /\ ~app.isAuthenticated
    /\ \A t \in tasks : t.req # "login"


\* C27: a tick of the periodic check on an active session whose last
\* activity is at least timeoutMinutes old expires the session at that tick:
\* the manager is stopped with no timer left pending, the credentials are
\* cleared and the page is redirected; a tick on an inactive session changes
\* nothing.
C27_PeriodicCheckExpires ==
    [][out'.op = "periodicCheck" =>
          /\ (/\ state.isActive
              /\ now - state.lastActivity >= config.timeoutMinutes * 60 * 1000) =>
                 /\ ~state'.isActive /\ timers' = {}
                 /\ store' = EmptyStore
                 /\ {"alert", "redirect"} \subseteq out'.effects
          /\ ~state.isActive =>
                 /\ state' = state /\ store' = store /\ timers' = timers
                 /\ tasks' = tasks
                 /\ out'.effects = {} /\ out'.notified = {}]_vars


\* C29: in the state reached by a successful login through the login form
\* the session manager has been started: getSessionInfo().isActive is true.
C29_LoginStartsManager ==
    (/\ out.op = "respond" /\ out.req = "login" /\ out.status = 200
     /\ app.isAuthenticated) =>
        getSessionInfo(World).isActive


\* the number of the tick an interval's callback is running, counted from
\* the setInterval call
TickNumber(i) == i.ticks + 1

\* C28: while the session is active (and a token is stored), the periodic
\* check triggers the backend validation at a fixed period that does not
\* depend on the last activity: every 10 minutes counted from the start of
\* the check, which is every second tick under the default configuration.
C28_ValidationAtFixedPeriod ==
    [][\A i \in intervals :
          (/\ out'.op = "periodicCheck" /\ out'.by = i.id /\ i.due <= now
           /\ state.isActive /\ store.adminToken # {}
           /\ now - state.lastActivity < config.timeoutMinutes * 60 * 1000) =>
              ((out'.effects \cap {"validate", "refresh", "logout"} # {})
                  <=> (TickNumber(i) * i.period) % ValidateEveryMs = 0)]_vars


\* the callers of verifyToken
Callers == {"bootstrap", "periodic", "tokenRefresh"}

\* C25: whatever the backend answers, a call of verifyToken completes after
\* finitely many requests: a caller that awaits a request of verifyToken is
\* in the end left without any request to await.
C25_VerifyTokenCompletes ==
    \A c \in Callers :
        (\E t \in tasks : t.caller = c) ~> (\A t \in tasks : t.caller # c)


\* C23: while less than timeoutMinutes have passed since the last activity
\* the manager has seen (the user's last activity is no older) and the user
\* has declined no continuation prompt, which no behaviour of SpecTracking
\* does, no step of the inactivity logic (the tracker's check, the manager's
\* periodic check and timers) removes adminToken or redirects to /login.
C23_NoLogoutBeforeTimeout ==
    [][(/\ out'.op \in {"sessionCheck", "periodicCheck", "timeoutTimer",
                        "warningTimer"}
        /\ now - state.lastActivity < config.timeoutMinutes * 60 * 1000) =>
           /\ store'.adminToken = store.adminToken
           /\ "redirect" \notin out'.effects]_vars

\* the isAllowed calls for a key answered true, since its last reset, less
\* than windowMs before time t
Within(k, t, windowMs) == {i \in DOMAIN allowed[k] : t - allowed[k][i] < windowMs}

\* C30: with the limit and the window fixed, at most maxAttempts of the
\* calls answered true for a key lie less than windowMs apart; a call is
\* answered true exactly when fewer than maxAttempts calls for its own key
\* were answered true less than windowMs ago, so that neither a denied call
\* nor a call for another key counts; a denied call leaves the limiter as it
\* was, a call leaves the other keys' records alone, and the first call after
\* reset(key) is answered true.
C30_RateLimiter ==
    \A k \in Keys :
        /\ \A i \in DOMAIN allowed[k] :
              Cardinality({j \in Within(k, allowed[k][i], LoginWindowMs) : j <= i})
                  <= LoginMaxAttempts
        /\ LET r == isAllowed(World, k, LoginMaxAttempts, LoginWindowMs)
           IN  /\ r[2] <=> Cardinality(Within(k, now, LoginWindowMs)) < LoginMaxAttempts
               /\ ~r[2] => r[1] = World
               /\ \A k2 \in Keys \ {k} : r[1].attempts[k2] = attempts[k2]
        /\ isAllowed(reset(World, k), k, LoginMaxAttempts, LoginWindowMs)[2]
        /\ \A k2 \in Keys \ {k} : reset(World, k).attempts[k2] = attempts[k2]

\* a call was denied for a key that has maxAttempts calls answered true in
\* the window, while the other key has calls on record as well
C30_Witness ==
    /\ out.op = "isAllowed" /\ out.result = "denied"
    /\ \E k \in Keys :
          /\ out.req = k
          /\ Cardinality(Within(k, now, LoginWindowMs)) = LoginMaxAttempts
          /\ \E k2 \in Keys \ {k} : allowed[k2] # <<>>

====
